---------------------------- MODULE Spec2Model ----------------------------
(***************************************************************************)
(* Research pipeline orchestrator and session registry.                    *)
(*                                                                         *)
(*   server/controllers/researchController.ts  the registry activeResearch,*)
(*                                             startResearch,              *)
(*                                             streamResearch and its      *)
(*                                             event handlers,             *)
(*                                             processResearchQuery        *)
(*   server/services/researchService.ts        ResearchService             *)
(*                                             .executeResearch and its    *)
(*                                             stages                      *)
(*                                                                         *)
(* The host is single-threaded: an action is one run-to-completion turn of *)
(* the event loop (a request handler, the continuation of an awaited       *)
(* completion call, the continuation of an awaited storage write, a timer  *)
(* callback).  Storage calls are assumed to succeed; completion calls may  *)
(* fail.                                                                   *)
(***************************************************************************)
EXTENDS Integers, Sequences, FiniteSets, TLC

(***************************************************************************)
(* JavaScript numbers.  The progress values are IEEE-754 doubles; the ones *)
(* the pipeline computes lie in [0, 128), so a double is kept as the exact *)
(* 64-bit binary expansion of its value, 7 bits before the binary point    *)
(* and 57 after it, held as four 16-bit limbs <<a, b, c, d>>:              *)
(*     value = (a * 2^48 + b * 2^32 + c * 2^16 + d) / 2^57.                *)
(* Every operation computes the exact result and rounds it to 53           *)
(* significant bits, ties to even, as the hardware does.                   *)
(***************************************************************************)
FxBase == 65536

\* the integer k, 0 <= k < 128
FxFromInt(k) == <<k * 512, 0, 0, 0>>

\* the exact sum of two expansions (the callers keep it below 128)
FxAddExact(x, y) ==
  LET d == x[4] + y[4]
      c == x[3] + y[3] + (d \div FxBase)
      b == x[2] + y[2] + (c \div FxBase)
      a == x[1] + y[1] + (b \div FxBase)
  IN  <<a, b % FxBase, c % FxBase, d % FxBase>>

\* number of bits of the limb v, 0 for v = 0
FxBits(v) == IF v = 0 THEN 0 ELSE CHOOSE k \in 1..16 : 2 ^ (k - 1) <= v /\ v < 2 ^ k

\* number of bits of the expansion from its leading 1 bit to its last bit
FxWidth(x) ==
  IF x[1] # 0 THEN 48 + FxBits(x[1])
  ELSE IF x[2] # 0 THEN 32 + FxBits(x[2])
  ELSE IF x[3] # 0 THEN 16 + FxBits(x[3])
  ELSE FxBits(x[4])

\* round an exact expansion (sticky: a nonzero part lies beyond the last bit)
\* to 53 significant bits, round-half-to-even.  drop = number of low bits that
\* do not fit; it is at most 11, so they all lie in the last limb.
FxRound(x, sticky) ==
  LET drop == FxWidth(x) - 53
  IN IF drop <= 0 THEN x
     ELSE LET unit  == 2 ^ drop            \* weight of the last kept bit
              half  == 2 ^ (drop - 1)      \* weight of the guard bit
              low   == x[4] % unit         \* the dropped bits
              kept  == <<x[1], x[2], x[3], x[4] - low>>
              odd   == (x[4] \div unit) % 2 = 1
              up    == \/ low > half
                       \/ low = half /\ (sticky \/ odd)
          IN IF up THEN FxAddExact(kept, <<0, 0, 0, unit>>) ELSE kept

\* x + y in double arithmetic
FxAdd(x, y) == FxRound(FxAddExact(x, y), FALSE)

\* num / den in double arithmetic, for integers 0 < den < 2^15, 0 <= num < 128:
\* long division of num * 2^57 by den, one limb at a time
FxDiv(num, den) ==
  LET n1 == num * 512
      n2 == (n1 % den) * FxBase
      n3 == (n2 % den) * FxBase
      n4 == (n3 % den) * FxBase
  IN  FxRound(<<n1 \div den, n2 \div den, n3 \div den, n4 \div den>>, n4 % den # 0)

\* x < y
FxLess(x, y) ==
  \E i \in 1..4 : x[i] < y[i] /\ \A j \in 1..(i - 1) : x[j] = y[j]

FxLeq(x, y) == x = y \/ FxLess(x, y)

(***************************************************************************)
(* Bounds of the model.                                                    *)
(***************************************************************************)
MaxSessions == 1    \* accepted startResearch requests
MaxAttach   == 2    \* accepted streamResearch requests
MaxBacklog  == 0    \* handler continuations of a pipeline still waiting on
                    \* storage when its next completion call returns
MaxArrayLen == 1    \* elements of a JSON array in a question response
MaxHeaders  == 1    \* '## ' header lines in an outline response

(***************************************************************************)
(* Program constants.                                                      *)
(***************************************************************************)
MaxQuestionCount == 5        \* questions.slice(0, 5)
CompletedTtl     == 3600000  \* eviction delay after 'complete', ms
ErrorTtl         == 300000   \* eviction delay after 'error', ms

(***************************************************************************)
(* Request bodies.  Missing stands for a field the body does not carry.    *)
(***************************************************************************)
Missing == "<missing>"

ModelType == {"combined", "compound", "llama"}

\* the request bodies tried: <<query, modelType>>
Requests ==
  { <<Missing, "llama">>, <<"", Missing>>, <<"q", "gpt">>, <<"q", "">>,
    <<"q", Missing>>, <<"q", "llama">> }

\* the failures GroqService.chatCompletion raises
FailureMessages == {"No response received from Groq API", "Groq API Error: 429 - {}"}

(***************************************************************************)
(* Sequences.                                                              *)
(***************************************************************************)
\* variant: nothing is cut off
SliceAll(s, n) == s

Slice(s, n) == SubSeq(s, 1, IF Len(s) < n THEN Len(s) ELSE n)

Min(a, b) == IF a < b THEN a ELSE b

(***************************************************************************)
(* Question generation.  The text of the completion response is kept as    *)
(* what the three parsers make of it:                                      *)
(*   whole  JSON.parse(response): "array" (of len elements), "value" (any  *)
(*          other JSON value) or "invalid" (it throws)                     *)
(*   sub    JSON.parse of the text from the first '[' to the last ']':     *)
(*          "none" (no such text), "array" (of sublen elements), "invalid" *)
(*   lines  the number of lines that start with digits and a dot           *)
(* A question is kept as where it was taken from, [src, idx]: element idx  *)
(* of the whole-response array ("json"), of the bracketed array            *)
(* ("substring") or of the numbered lines ("line").                        *)
(***************************************************************************)
QuestionResponse(whole, len, sub, sublen, lines) ==
  [whole |-> whole, len |-> len, sub |-> sub, sublen |-> sublen, lines |-> lines]

Elements(src, n) == [i \in 1..n |-> [src |-> src, idx |-> i]]

\* the five template questions, each built around the query text
DefaultQuestions(query) ==
  [i \in 1..5 |-> [src |-> "template", idx |-> i, query |-> query]]

\* no response received yet
NoQuestionResponse == QuestionResponse("pending", 0, "none", 0, 0)

GenerateFollowUpQuestions(query, r) ==
  IF r.whole = "array" THEN Slice(Elements("json", r.len), MaxQuestionCount)
  ELSE IF r.whole = "invalid" /\ r.sub = "array"
       THEN Slice(Elements("substring", r.sublen), MaxQuestionCount)
  ELSE IF r.lines = 0 THEN DefaultQuestions(query)
  ELSE Slice(Elements("line", r.lines), MaxQuestionCount)

(***************************************************************************)
(* Outline parsing.  An outline is its sequence of trimmed lines, a line   *)
(* being [kind, text]: "blank", "h2" ('## ' + text), "h3" ('### ' + text), *)
(* "hash" (any other line starting with '#') or "text".  A description is  *)
(* the sequence of the texts joined with spaces.                           *)
(***************************************************************************)
Line(kind, text) == [kind |-> kind, text |-> text]

NoSection == [title |-> "<none>"]

Section(title, description) == [title |-> title, description |-> description, level |-> 1]

\* titles whose lower-case form includes 'executive summary' / 'conclusion'
ExecutiveSummaryTitles == {"Executive Summary", "EXECUTIVE SUMMARY"}
ConclusionTitles == {"Conclusion", "Conclusions and Outlook"}

DefaultSections ==
  << Section("Main Findings", <<"Key research findings">>),
     Section("Analysis", <<"Analysis of the research">>),
     Section("Discussion", <<"Discussion of implications">>) >>

\* variant: a '### ' line opens a section as a '## ' line does
ParseLineAnyHeader(st, l) ==
  LET cur == st.current
  IN IF l.kind = "blank" THEN st
     ELSE IF l.kind \in {"h2", "h3"}
       THEN [sections |-> IF cur # NoSection THEN Append(st.sections, cur)
                          ELSE st.sections,
             current |-> Section(l.text, <<>>)]
     ELSE IF cur # NoSection /\ l.kind = "text"
       THEN [st EXCEPT !.current.description = Append(@, l.text)]
     ELSE st

\* one pass of the loop over the lines: st = [sections, current]
ParseLine(st, l) ==
  LET cur == st.current
  IN IF l.kind = "blank" THEN st
     ELSE IF l.kind = "h2"
       THEN [sections |-> IF cur # NoSection THEN Append(st.sections, cur)
                          ELSE st.sections,
             current |-> Section(l.text, <<>>)]
     ELSE IF l.kind = "h3"
       THEN IF cur # NoSection
            THEN [st EXCEPT !.current.description = Append(@, l.text)]
            ELSE st
     ELSE IF cur # NoSection /\ l.kind = "text"
       THEN [st EXCEPT !.current.description = Append(@, l.text)]
     ELSE st

RECURSIVE ParseLines(_, _, _)
ParseLines(lines, i, st) ==
  IF i > Len(lines) THEN st
  ELSE ParseLines(lines, i + 1, ParseLine(st, lines[i]))

\* the sections the loop collects, the last one included
ParseSections(outline) ==
  LET st == ParseLines(outline, 1, [sections |-> <<>>, current |-> NoSection])
  IN IF st.current # NoSection THEN Append(st.sections, st.current)
     ELSE st.sections

\* variant: the filter compares the exact titles
KeepSectionExact(s) == s.title \notin {"Executive Summary", "Conclusion"}

KeepSection(s) == s.title \notin ExecutiveSummaryTitles /\ s.title \notin ConclusionTitles

ParseOutline(outline) ==
  LET all  == ParseSections(outline)
      some == IF Len(all) = 0 THEN DefaultSections ELSE all
  IN  SelectSeq(some, KeepSection)

(***************************************************************************)
(* Events.                                                                 *)
(***************************************************************************)
ProgressEvent(step, isCompleted, progress) ==
  [kind |-> "progress", step |-> step, isCompleted |-> isCompleted, progress |-> progress]
QuestionsEvent(questions) == [kind |-> "questions", questions |-> questions]
QAEvent(question, answer) == [kind |-> "qa", question |-> question, answer |-> answer]
TitleEvent(title) == [kind |-> "title", title |-> title]
OutlineEvent(outline) == [kind |-> "outline", outline |-> outline]
\* variant: the section event carries the title and no produced text
SectionEventTitleOnly(title, content) ==
  [kind |-> "section", title |-> title, content |-> [call |-> 0]]

SectionEvent(title, content) == [kind |-> "section", title |-> title, content |-> content]
\* variant: the report is assembled without the section list
ReportEventNoSections(title, summary, sections, conclusion) ==
  [kind |-> "report", title |-> title, executiveSummary |-> summary,
   sections |-> <<>>, conclusion |-> conclusion]

ReportEvent(title, summary, sections, conclusion) ==
  [kind |-> "report", title |-> title, executiveSummary |-> summary,
   sections |-> sections, conclusion |-> conclusion]
CompleteEvent == [kind |-> "complete"]
ErrorEvent(message) == [kind |-> "error", message |-> message]

(***************************************************************************)
(* State.                                                                  *)
(*   apiKey          process.env.GROQ_API_KEY is set                       *)
(*   activeResearch  the registry: queryId -> entry                        *)
(*   services        number of ResearchService instances constructed       *)
(*   att             one record per accepted streamResearch request k: the *)
(*                   emitter its listeners are registered on, and the      *)
(*                   processResearchQuery / executeResearch call it made   *)
(*   pending         event-handler invocations waiting on storage          *)
(*   sse             sse[k]: the events written to the response of request *)
(*                   k, each <<execution, index in its emitted events>>;   *)
(*                   <<0, 0>> is the initial progress message              *)
(*   dbQueries       table research_queries, by queryId                    *)
(*   dbSteps         table research_steps                                  *)
(*   timers          pending setTimeout callbacks, with the time left      *)
(*   handled         the complete / error handlers that ran to their end,  *)
(*                   with the time elapsed since                           *)
(*   response        the answer to the HTTP request handled in the latest  *)
(*                   turn, NoResponse when that turn handled none          *)
(*   closed          the streamResearch requests whose client has          *)
(*                   disconnected                                          *)
(***************************************************************************)
VARIABLES apiKey, activeResearch, services, att, pending, sse,
          dbQueries, dbSteps, timers, handled, response, closed, prompt

vars == <<apiKey, activeResearch, services, att, pending, sse,
          dbQueries, dbSteps, timers, handled, response, closed, prompt>>

Respond(op, code, body) == [op |-> op, code |-> code, body |-> body]

\* the text a completion call returns, named by the call's number
Text(call) == [call |-> call]

\* a text not yet produced
NoText == Text(0)

\* res.json({ error: message })
Failure(message) == [error |-> message]

NoResponse == Respond("none", 0, Failure(Missing))

\* a turn of the event loop that answers no HTTP request
Turn == response' = NoResponse

\* no prompt has been built
NoPrompt == [consumer |-> "none", inputs |-> {}, parts |-> {}]

Init ==
  /\ apiKey \in BOOLEAN
  /\ activeResearch = <<>>
  /\ services = 0
  /\ att = <<>>
  /\ pending = {}
  /\ sse = <<>>
  /\ dbQueries = <<>>
  /\ dbSteps = {}
  /\ timers = {}
  /\ handled = {}
  /\ response = NoResponse
  /\ closed = {}
  /\ prompt = NoPrompt

(***************************************************************************)
(* startResearch.  The identifier is known to no client before the handler *)
(* answers, so no other turn can act on the session between its awaited    *)
(* storage calls: the handler is one step.                                 *)
(***************************************************************************)
\* variant: the identifier is the next free slot of the registry
NewQueryIdReused == Cardinality(DOMAIN activeResearch) + 1

\* uuidv4(): an identifier never issued before
NewQueryId == Cardinality(DOMAIN dbQueries) + 1

\* !query
QueryMissing(query) == query = Missing \/ query = ""

\* const { query, modelType = 'combined' } = req.body
ModelOrDefault(modelType) == IF modelType = Missing THEN "combined" ELSE modelType

\* variant: the model type is not validated
ValidModelAny(modelType) == TRUE

ValidModel(modelType) == modelType \in ModelType

\* variant: the entry is registered as already running
InitialStatusRunning == "in_progress"

InitialStatus == "initializing"

NewEntry(service, query, modelType) ==
  [service |-> service, query |-> query, modelType |-> modelType,
   status |-> InitialStatus, progress |-> <<>>, questions |-> <<>>,
   answers |-> <<>>, error |-> Missing]

StartResearch(query, modelInput) ==
  LET modelType == ModelOrDefault(modelInput)
      queryId   == NewQueryId
  IN
  \/ /\ ~apiKey
     /\ response' = Respond("startResearch", 500,
                          Failure("GROQ_API_KEY environment variable is not set"))
     /\ UNCHANGED <<apiKey, prompt, closed, activeResearch, services, att, pending, sse,
                    dbQueries, dbSteps, timers, handled>>
  \/ /\ apiKey
     /\ QueryMissing(query)
     /\ response' = Respond("startResearch", 400, Failure("Query is required"))
     /\ UNCHANGED <<apiKey, prompt, closed, activeResearch, services, att, pending, sse,
                    dbQueries, dbSteps, timers, handled>>
  \/ /\ apiKey
     /\ ~QueryMissing(query)
     /\ ~ValidModel(modelType)
     /\ response' = Respond("startResearch", 400,
                    Failure("Invalid model type. Must be one of: combined, compound, llama"))
     /\ UNCHANGED <<apiKey, prompt, closed, activeResearch, services, att, pending, sse,
                    dbQueries, dbSteps, timers, handled>>
  \/ /\ apiKey
     /\ ~QueryMissing(query)
     /\ ValidModel(modelType)
     /\ services' = services + 1
     /\ dbQueries' = [i \in DOMAIN dbQueries \cup {queryId} |->
                        IF i = queryId
                        THEN [query |-> query, modelType |-> modelType,
                              status |-> "initializing", title |-> NoText,
                              completedAt |-> FALSE]
                        ELSE dbQueries[i]]
     /\ dbSteps' = dbSteps \cup {[queryId |-> queryId, step |-> "init",
                                  status |-> "in_progress", src |-> <<0, 0>>, obs |-> 0]}
     /\ activeResearch' = [i \in DOMAIN activeResearch \cup {queryId} |->
                             IF i = queryId THEN NewEntry(services + 1, query, modelType)
                             ELSE activeResearch[i]]
     /\ response' = Respond("startResearch", 201, [queryId |-> queryId])
     /\ UNCHANGED <<apiKey, prompt, closed, att, pending, sse, timers, handled>>

(***************************************************************************)
(* streamResearch: the request handler up to and including the synchronous *)
(* start of processResearchQuery, which suspends at its first await.       *)
(***************************************************************************)
\* variant: the listeners are registered on the service the entry already holds
AttachServiceShared(queryId) == activeResearch[queryId].service

\* researchService = new ResearchService(apiKey); research.service = researchService
AttachService(queryId) == services + 1

\* no failure so far
NoFailure == [stage |-> "none", message |-> Missing]

NewExecution(queryId, service) ==
  [queryId |-> queryId, svc |-> service, pc |-> "starting", calls |-> 0,
   questionText |-> NoQuestionResponse,
   questions |-> <<>>, answers |-> <<>>, qaContext |-> <<>>,
   researchData |-> NoText,
   reportTitle |-> NoText, executiveSummary |-> NoText, sections |-> <<>>, i |-> 0,
   progressIncrement |-> FxFromInt(0), currentProgress |-> FxFromInt(0),
   contentSections |-> <<>>, emitted |-> <<>>,
   failedAt |-> NoFailure]

\* variant: the unknown identifier is answered as a bad request
NotFoundAsBadRequest(op) == Respond(op, 400, Failure("Research query not found"))

NotFound(op) == Respond(op, 404, Failure("Research query not found"))

StreamResearch(queryId, maxAttach) ==
  \/ /\ ~apiKey
     /\ response' = Respond("streamResearch", 500,
                          Failure("GROQ_API_KEY environment variable is not set"))
     /\ UNCHANGED <<apiKey, prompt, closed, activeResearch, services, att, pending, sse,
                    dbQueries, dbSteps, timers, handled>>
  \/ /\ apiKey
     /\ queryId \notin DOMAIN activeResearch
     /\ response' = NotFound("streamResearch")
     /\ UNCHANGED <<apiKey, prompt, closed, activeResearch, services, att, pending, sse,
                    dbQueries, dbSteps, timers, handled>>
  \/ /\ apiKey
     /\ queryId \in DOMAIN activeResearch
     /\ Len(att) < maxAttach
     /\ LET service == AttachService(queryId)
        IN /\ services' = services + 1
           /\ activeResearch' = [activeResearch EXCEPT ![queryId].service = service,
                                                       ![queryId].status = "in_progress"]
           /\ att' = Append(att, NewExecution(queryId, service))
     /\ sse' = Append(sse, {<<0, 0>>})
     /\ response' = Respond("streamResearch", 200, [queryId |-> queryId])
     /\ UNCHANGED <<apiKey, prompt, closed, pending, dbQueries, dbSteps, timers, handled>>

(***************************************************************************)
(* EventEmitter.emit: the listeners of an emitter run synchronously, in    *)
(* registration order, up to their first await; the rest of each handler   *)
(* runs when its storage call resolves (HandlerStep below).                *)
(***************************************************************************)
\* variant: one emitter shared by every request
ListenersAll(service) == {k \in 1..Len(att) : service > 0}

Listeners(service) == {k \in 1..Len(att) : att[k].svc = service}

\* the synchronous part of the handler that request k registered
SyncHandler(reg, k, ev) ==
  LET id == att[k].queryId
  IN IF id \notin DOMAIN reg THEN reg    \* the entry has left the registry
     ELSE IF ev.kind = "questions" THEN [reg EXCEPT ![id].questions = ev.questions]
     ELSE IF ev.kind = "qa" THEN [reg EXCEPT ![id].answers = Append(@, ev.answer)]
     ELSE IF ev.kind = "complete" THEN [reg EXCEPT ![id].status = "completed"]
     ELSE IF ev.kind = "error" THEN [reg EXCEPT ![id].status = "error",
                                                ![id].error = ev.message]
     ELSE reg

RECURSIVE SyncListeners(_, _, _, _)
SyncListeners(reg, service, ev, k) ==
  IF k > Len(att) THEN reg
  ELSE SyncListeners(IF att[k].svc = service THEN SyncHandler(reg, k, ev) ELSE reg,
                     service, ev, k + 1)

RECURSIVE SyncEvents(_, _, _, _)
SyncEvents(reg, service, evs, i) ==
  IF i > Len(evs) THEN reg
  ELSE SyncEvents(SyncListeners(reg, service, evs[i], 1), service, evs, i + 1)

Tasks(e, evs) ==
  {[exec |-> e, n |-> Len(att[e].emitted) + i, obs |-> k, phase |-> 1] :
     i \in 1..Len(evs), k \in Listeners(att[e].svc)}

\* processResearchQuery after 'await researchService.executeResearch(...)'
AfterExecute(reg, e) ==
  LET id == att[e].queryId
  IN IF id \in DOMAIN reg THEN [reg EXCEPT ![id].status = "completed"] ELSE reg

\* execution e moves to the record new, emitting evs on the way; returned:
\* executeResearch has returned into processResearchQuery
Deliver(e, new, evs, returned) ==
  /\ att' = [att EXCEPT ![e] = [new EXCEPT !.emitted = @ \o evs]]
  /\ pending' = pending \cup Tasks(e, evs)
  /\ activeResearch' =
       LET reg == SyncEvents(activeResearch, att[e].svc, evs, 1)
       IN IF returned THEN AfterExecute(reg, e) ELSE reg


\* the awaited completion call of execution e resolves only when at most
\* MaxBacklog of the execution's handler invocations still wait on storage
Ready(e) == Cardinality({t \in pending : t.exec = e}) <= MaxBacklog

(***************************************************************************)
(* processResearchQuery and ResearchService.executeResearch, one action    *)
(* per await.                                                              *)
(***************************************************************************)
StartEvents ==
  << ProgressEvent("init", TRUE, FxFromInt(0)),
     ProgressEvent("questions", FALSE, FxFromInt(5)) >>

\* await storage.updateResearchQueryStatus(queryId, 'in_progress') resolves
\* and executeResearch runs to its first completion call
ProcessStart(e) ==
  /\ att[e].pc = "starting"
  /\ dbQueries' = [dbQueries EXCEPT ![att[e].queryId].status = "in_progress"]
  /\ Deliver(e, [att[e] EXCEPT !.pc = "questions", !.calls = 1], StartEvents, FALSE)
  /\ Turn
  /\ UNCHANGED <<apiKey, prompt, closed, services, sse, dbSteps, timers, handled>>

QuestionsEvents(questions) ==
  << QuestionsEvent(questions),
     ProgressEvent("questions", TRUE, FxFromInt(15)),
     ProgressEvent("answers", FALSE, FxFromInt(15)) >>

\* variant: the qa events are emitted from the last question to the first
AnswersEventsReversed(questions, answers) ==
  [i \in 1..Len(questions) |->
     QAEvent(questions[Len(questions) + 1 - i], answers[Len(questions) + 1 - i])]
  \o << ProgressEvent("answers", TRUE, FxFromInt(30)),
        ProgressEvent("research_data", FALSE, FxFromInt(30)) >>

AnswersEvents(questions, answers) ==
  [i \in 1..Len(questions) |-> QAEvent(questions[i], answers[i])]
  \o << ProgressEvent("answers", TRUE, FxFromInt(30)),
        ProgressEvent("research_data", FALSE, FxFromInt(30)) >>

\* qaContext += `Question: ${questions[i]}\nAnswer: ${answers[i]}\n\n`, kept
\* as the sequence of the pairs
QAContext(questions, answers) ==
  [i \in 1..Len(questions) |-> [question |-> questions[i], answer |-> answers[i]]]

QuestionsReturn(e, r) ==
  /\ att[e].pc = "questions"
  /\ Ready(e)
  /\ LET questions == GenerateFollowUpQuestions(dbQueries[att[e].queryId].query, r)
     IN IF Len(questions) = 0
        THEN Deliver(e, [att[e] EXCEPT !.questionText = r, !.questions = questions,
                                       !.qaContext = QAContext(questions, <<>>),
                                       !.pc = "research_data", !.calls = @ + 1],
                     QuestionsEvents(questions) \o AnswersEvents(questions, <<>>), FALSE)
        ELSE Deliver(e, [att[e] EXCEPT !.questionText = r, !.questions = questions,
                                       !.pc = "answers", !.calls = @ + 1],
                     QuestionsEvents(questions), FALSE)
  /\ Turn
  /\ UNCHANGED <<apiKey, prompt, closed, services, sse, dbQueries, dbSteps, timers, handled>>

\* answerFollowUpQuestions: one call per question, in order
AnswerReturn(e) ==
  /\ att[e].pc = "answers"
  /\ Ready(e)
  /\ LET answers == Append(att[e].answers, Text(att[e].calls))
     IN IF Len(answers) < Len(att[e].questions)
        THEN Deliver(e, [att[e] EXCEPT !.answers = answers, !.calls = @ + 1], <<>>, FALSE)
        ELSE Deliver(e, [att[e] EXCEPT !.answers = answers,
                                       !.qaContext = QAContext(att[e].questions, answers),
                                       !.pc = "research_data", !.calls = @ + 1],
                     AnswersEvents(att[e].questions, answers), FALSE)
  /\ Turn
  /\ UNCHANGED <<apiKey, prompt, closed, services, sse, dbQueries, dbSteps, timers, handled>>

ResearchDataEvents ==
  << ProgressEvent("research_data", TRUE, FxFromInt(45)),
     ProgressEvent("title", FALSE, FxFromInt(45)) >>

ResearchDataReturn(e) ==
  /\ att[e].pc = "research_data"
  /\ Ready(e)
  /\ Deliver(e, [att[e] EXCEPT !.researchData = Text(att[e].calls),
                               !.pc = "title", !.calls = @ + 1],
             ResearchDataEvents, FALSE)
  /\ Turn
  /\ UNCHANGED <<apiKey, prompt, closed, services, sse, dbQueries, dbSteps, timers, handled>>

TitleEvents(title) ==
  << TitleEvent(title),
     ProgressEvent("title", TRUE, FxFromInt(50)),
     ProgressEvent("outline", FALSE, FxFromInt(50)) >>

TitleReturn(e) ==
  /\ att[e].pc = "title"
  /\ Ready(e)
  /\ Deliver(e, [att[e] EXCEPT !.reportTitle = Text(att[e].calls),
                               !.pc = "outline", !.calls = @ + 1],
             TitleEvents(Text(att[e].calls)), FALSE)
  /\ Turn
  /\ UNCHANGED <<apiKey, prompt, closed, services, sse, dbQueries, dbSteps, timers, handled>>

OutlineEvents(outline) ==
  << OutlineEvent(outline),
     ProgressEvent("outline", TRUE, FxFromInt(55)),
     ProgressEvent("sections", FALSE, FxFromInt(55)) >>

\* const progressIncrement = 35 / sections.length
\* 35 / 0
Infinity == <<-1, 0, 0, 0>>

ProgressIncrement(count) == IF count = 0 THEN Infinity ELSE FxDiv(35, count)

SummaryStart == ProgressEvent("summary", FALSE, FxFromInt(90))

\* variant: an outline without usable sections is raised as a failure
OutlineReturnRejectsEmpty(e, outline) ==
  /\ att[e].pc = "outline"
  /\ Ready(e)
  /\ \E sections \in {ParseOutline(outline)} :
     \E increment \in {ProgressIncrement(Len(sections))} :
     LET new == [att[e] EXCEPT !.sections = sections,
                               !.progressIncrement = increment,
                               !.currentProgress = FxFromInt(55),
                               !.calls = @ + 1]
     IN IF Len(sections) = 0
        THEN Deliver(e, [att[e] EXCEPT !.pc = "failed",
                                       !.failedAt = [stage |-> "outline",
                                                     message |-> "Outline has no sections"]],
                     <<ErrorEvent("Outline has no sections")>>, TRUE)
        ELSE Deliver(e, [new EXCEPT !.pc = "sections", !.i = 1],
                     OutlineEvents(outline)
                       \o <<ProgressEvent("sections", FALSE, FxFromInt(55))>>, FALSE)
  /\ Turn
  /\ UNCHANGED <<apiKey, prompt, closed, services, sse, dbQueries, dbSteps, timers, handled>>

OutlineReturn(e, outline) ==
  /\ att[e].pc = "outline"
  /\ Ready(e)
  /\ \E sections \in {ParseOutline(outline)} :
     \E increment \in {ProgressIncrement(Len(sections))} :
     LET new == [att[e] EXCEPT !.sections = sections,
                               !.progressIncrement = increment,
                               !.currentProgress = FxFromInt(55),
                               !.calls = @ + 1]
     IN IF Len(sections) = 0
        THEN Deliver(e, [new EXCEPT !.pc = "summary"],
                     OutlineEvents(outline) \o <<SummaryStart>>, FALSE)
        ELSE Deliver(e, [new EXCEPT !.pc = "sections", !.i = 1],
                     OutlineEvents(outline)
                       \o <<ProgressEvent("sections", FALSE, FxFromInt(55))>>, FALSE)
  /\ Turn
  /\ UNCHANGED <<apiKey, prompt, closed, services, sse, dbQueries, dbSteps, timers, handled>>

\* one pass of the section loop, from the return of generateSectionContent
\* to the next completion call
SectionReturn(e) ==
  /\ att[e].pc = "sections"
  /\ Ready(e)
  /\ \E progress \in {FxAdd(att[e].currentProgress, att[e].progressIncrement)} :
     LET a == att[e]
         title == a.sections[a.i].title
         content == Text(a.calls)
         new == [a EXCEPT !.contentSections = Append(@, [title |-> title, content |-> content]),
                          !.currentProgress = progress,
                          !.calls = @ + 1]
         evs == << SectionEvent(title, content),
                   ProgressEvent("sections", TRUE, progress) >>
     IN IF a.i < Len(a.sections)
        THEN Deliver(e, [new EXCEPT !.i = @ + 1],
                     evs \o <<ProgressEvent("sections", FALSE, progress)>>, FALSE)
        ELSE Deliver(e, [new EXCEPT !.pc = "summary"], evs \o <<SummaryStart>>, FALSE)
  /\ Turn
  /\ UNCHANGED <<apiKey, prompt, closed, services, sse, dbQueries, dbSteps, timers, handled>>

\* variant: the conclusion stage starts without a progress event
SummaryEventsNoStart == << ProgressEvent("summary", TRUE, FxFromInt(95)) >>

SummaryEvents ==
  << ProgressEvent("summary", TRUE, FxFromInt(95)),
     ProgressEvent("conclusion", FALSE, FxFromInt(95)) >>

SummaryReturn(e) ==
  /\ att[e].pc = "summary"
  /\ Ready(e)
  /\ Deliver(e, [att[e] EXCEPT !.executiveSummary = Text(att[e].calls),
                               !.pc = "conclusion", !.calls = @ + 1],
             SummaryEvents, FALSE)
  /\ Turn
  /\ UNCHANGED <<apiKey, prompt, closed, services, sse, dbQueries, dbSteps, timers, handled>>

\* variant: 'complete' is emitted before 'report'
FinalEventsCompleteFirst(report) ==
  << ProgressEvent("conclusion", TRUE, FxFromInt(100)),
     ProgressEvent("complete", TRUE, FxFromInt(100)),
     CompleteEvent,
     report >>

FinalEvents(report) ==
  << ProgressEvent("conclusion", TRUE, FxFromInt(100)),
     report,
     ProgressEvent("complete", TRUE, FxFromInt(100)),
     CompleteEvent >>

\* the last completion call returns; executeResearch runs to its end and
\* returns into processResearchQuery
ConclusionReturn(e) ==
  /\ att[e].pc = "conclusion"
  /\ Ready(e)
  /\ LET a == att[e]
         report == ReportEvent(a.reportTitle, a.executiveSummary,
                               a.contentSections, Text(a.calls))
     IN Deliver(e, [a EXCEPT !.pc = "done"], FinalEvents(report), TRUE)
  /\ Turn
  /\ UNCHANGED <<apiKey, prompt, closed, services, sse, dbQueries, dbSteps, timers, handled>>

CallStates == {"questions", "answers", "research_data", "title", "outline",
               "sections", "summary", "conclusion"}

\* variant: the failure is reported by executeResearch and by its caller
FailureEventsRepeated(message) == <<ErrorEvent(message), ErrorEvent(message)>>

\* variant: the catch reports a fixed text instead of error.message
FailureEventsGeneric(message) == <<ErrorEvent("Research failed")>>

\* catch (error) { this.emit('error', { message: error.message }) }
FailureEvents(message) == <<ErrorEvent(message)>>

\* variant: a rejected completion call is issued again
CompletionFailsRetried(e, message) ==
  /\ att[e].pc \in CallStates
  /\ Ready(e)
  /\ Deliver(e, [att[e] EXCEPT !.calls = @ + 1], <<>>, FALSE)
  /\ Turn
  /\ UNCHANGED <<apiKey, prompt, closed, services, sse, dbQueries, dbSteps, timers, handled>>

\* the awaited completion call rejects: the catch of executeResearch emits
\* the error event and executeResearch returns normally
CompletionFails(e, message) ==
  /\ att[e].pc \in CallStates
  /\ Ready(e)
  /\ Deliver(e, [att[e] EXCEPT !.pc = "failed", !.failedAt = [stage |-> att[e].pc, message |-> message]],
             FailureEvents(message), TRUE)
  /\ Turn
  /\ UNCHANGED <<apiKey, prompt, closed, services, sse, dbQueries, dbSteps, timers, handled>>

(***************************************************************************)
(* The event handlers registered by streamResearch, after their first      *)
(* await.  Task t: the handler of request t.obs for event t.n of execution *)
(* t.exec.                                                                 *)
(***************************************************************************)
EventOf(t) == att[t.exec].emitted[t.n]

\* handlers that await a point update before storage.addResearchStep
TwoWrites == {"title", "complete", "error"}

\* t is the oldest invocation still waiting among those of its request
Oldest(t) == \A u \in pending : u.obs = t.obs /\ u.exec = t.exec => t.n <= u.n

\* the first awaited storage call of the title, complete and error handlers;
\* inOrder: storage answers the calls of one request in the order they were made
HandlerStore(t, inOrder) ==
  LET ev == EventOf(t)
      id == att[t.obs].queryId
  IN /\ t.phase = 1
     /\ inOrder => Oldest(t)
     /\ ev.kind \in TwoWrites
     /\ dbQueries' =
          IF ev.kind = "title" THEN [dbQueries EXCEPT ![id].title = ev.title]
          ELSE IF ev.kind = "complete"
            THEN [dbQueries EXCEPT ![id].status = "completed", ![id].completedAt = TRUE]
          ELSE [dbQueries EXCEPT ![id].status = "error"]
     /\ pending' = (pending \ {t}) \cup {[t EXCEPT !.phase = 2]}
     /\ Turn
     /\ UNCHANGED <<apiKey, prompt, closed, activeResearch, services, att, sse, dbSteps, timers, handled>>

StepRecord(id, t, ev) ==
  [queryId |-> id,
   step    |-> IF ev.kind = "progress" THEN ev.step ELSE ev.kind,
   status  |-> IF ev.kind = "progress"
               THEN (IF ev.isCompleted THEN "completed" ELSE "in_progress")
               ELSE IF ev.kind = "error" THEN "error" ELSE "completed",
   src     |-> <<t.exec, t.n>>,
   obs     |-> t.obs]

\* setTimeout(() => activeResearch.delete(queryId), delay)
Ttl(kind) == IF kind = "complete" THEN CompletedTtl ELSE ErrorTtl

\* storage.addResearchStep resolves; the handler writes the event to its
\* response and, for complete and error, schedules the eviction
HandlerFinish(t, inOrder) ==
  LET ev == EventOf(t)
      id == att[t.obs].queryId
      terminal == ev.kind \in {"complete", "error"}
  IN /\ t.phase = IF ev.kind \in TwoWrites THEN 2 ELSE 1
     /\ inOrder => Oldest(t)
     /\ dbSteps' = dbSteps \cup {StepRecord(id, t, ev)}
     /\ sse' = IF t.obs \in closed THEN sse    \* written to a closed connection
               ELSE [sse EXCEPT ![t.obs] = @ \cup {<<t.exec, t.n>>}]
     /\ pending' = pending \ {t}
     /\ timers' = IF terminal
                  THEN timers \cup {[queryId |-> id, obs |-> t.obs, exec |-> t.exec,
                                     n |-> t.n, left |-> Ttl(ev.kind)]}
                  ELSE timers
     /\ handled' = IF terminal
                   THEN handled \cup {[kind |-> ev.kind, queryId |-> id, obs |-> t.obs,
                                       exec |-> t.exec, n |-> t.n, age |-> 0]}
                   ELSE handled
     /\ Turn
     /\ UNCHANGED <<apiKey, prompt, closed, activeResearch, services, att, dbQueries>>

(***************************************************************************)
(* getResearchStatus.  The timestamps createdAt and completedAt are kept   *)
(* as absent / present.                                                    *)
(***************************************************************************)
\* variant: the status is read from the durable record
MemorySnapshotStale(queryId) ==
  [status |-> dbQueries[queryId].status, query |-> activeResearch[queryId].query,
   modelType |-> activeResearch[queryId].modelType,
   error |-> activeResearch[queryId].error]

\* the answer built from the registry entry
MemorySnapshot(queryId) ==
  [status |-> activeResearch[queryId].status, query |-> activeResearch[queryId].query,
   modelType |-> activeResearch[queryId].modelType,
   error |-> activeResearch[queryId].error]

\* the answer built from the row of research_queries
DurableSnapshot(queryId) ==
  [status |-> dbQueries[queryId].status, query |-> dbQueries[queryId].query,
   modelType |-> dbQueries[queryId].modelType,
   completedAt |-> dbQueries[queryId].completedAt, title |-> dbQueries[queryId].title]

GetResearchStatus(queryId) ==
  /\ response' =
       IF queryId \in DOMAIN activeResearch
       THEN Respond("getResearchStatus", 200, MemorySnapshot(queryId))
       ELSE IF queryId \in DOMAIN dbQueries
       THEN Respond("getResearchStatus", 200, DurableSnapshot(queryId))
       ELSE NotFound("getResearchStatus")
  /\ UNCHANGED <<apiKey, prompt, closed, activeResearch, services, att, pending, sse,
                 dbQueries, dbSteps, timers, handled>>

(***************************************************************************)
(* getResearchReport.  The rows of research_steps are read without an      *)
(* ORDER BY; they come back in the order their inserts took effect.  With  *)
(* inOrder the rows of one request stand in emission order; rows of        *)
(* different requests, and without inOrder all rows, stand in any order.   *)
(***************************************************************************)
\* storage.getResearchSteps(queryId)
GetResearchSteps(queryId) == {r \in dbSteps : r.queryId = queryId}

\* the data column of a row: the payload of the event it was written for
StepData(r) == IF r.src[1] = 0 THEN [kind |-> "null"] ELSE att[r.src[1]].emitted[r.src[2]]

\* the rows steps.find(step => step.step === name) can return
FindStep(steps, name, inOrder) ==
  {r \in steps :
     /\ r.step = name
     /\ inOrder => \A u \in steps :
                     u.step = name /\ u.obs = r.obs /\ u.src[1] = r.src[1]
                       => r.src[2] <= u.src[2]}

NoStep == [queryId |-> 0, step |-> "none", status |-> "none", src |-> <<0, 0>>, obs |-> 0]

\* questionsStep?.data ? questionsStep.data.questions || [] : []
QuestionsOf(r) == IF StepData(r).kind = "questions" THEN StepData(r).questions ELSE <<>>

\* outlineStep?.data ? outlineStep.data.outline || '' : ''
OutlineTextOf(r) == IF StepData(r).kind = "outline" THEN StepData(r).outline ELSE <<>>

\* the answers are kept as the set of their pairs
FullReport(queryId, steps, questionsStep, outlineStep, reportStep) ==
  [query |-> dbQueries[queryId].query, title |-> dbQueries[queryId].title,
   status |-> dbQueries[queryId].status, completedAt |-> dbQueries[queryId].completedAt,
   questions |-> QuestionsOf(questionsStep),
   answers |-> {[question |-> StepData(r).question, answer |-> StepData(r).answer] :
                  r \in {u \in steps : u.step = "qa"}},
   outline |-> OutlineTextOf(outlineStep),
   report |-> StepData(reportStep)]

OrNoStep(rows) == IF rows = {} THEN {NoStep} ELSE rows

GetResearchReport(queryId, inOrder) ==
  LET steps == GetResearchSteps(queryId)
  IN /\ \/ /\ queryId \notin DOMAIN dbQueries
           /\ response' = NotFound("getResearchReport")
        \/ /\ queryId \in DOMAIN dbQueries
           /\ FindStep(steps, "report", inOrder) = {}
           /\ response' = Respond("getResearchReport", 404,
                                  Failure("Research report not found for this query"))
        \/ /\ queryId \in DOMAIN dbQueries
           /\ \E reportStep \in FindStep(steps, "report", inOrder),
                 questionsStep \in OrNoStep(FindStep(steps, "questions", inOrder)),
                 outlineStep \in OrNoStep(FindStep(steps, "outline", inOrder)) :
                response' = Respond("getResearchReport", 200,
                                    FullReport(queryId, steps, questionsStep, outlineStep,
                                               reportStep))
     /\ UNCHANGED <<apiKey, prompt, closed, activeResearch, services, att, pending, sse,
                    dbQueries, dbSteps, timers, handled>>

(***************************************************************************)
(* req.on('close'): the client of request k disconnects.  The handler logs *)
(* and stops nothing.                                                      *)
(***************************************************************************)
\* variant: the close handler abandons the pipeline of its request
DisconnectAborts(k) ==
  /\ k \notin closed
  /\ closed' = closed \cup {k}
  /\ att' = [att EXCEPT ![k].pc = "aborted"]
  /\ Turn
  /\ UNCHANGED <<apiKey, prompt, activeResearch, services, pending, sse,
                 dbQueries, dbSteps, timers, handled>>

Disconnect(k) ==
  /\ k \notin closed
  /\ closed' = closed \cup {k}
  /\ Turn
  /\ UNCHANGED <<apiKey, prompt, activeResearch, services, att, pending, sse,
                 dbQueries, dbSteps, timers, handled>>

(***************************************************************************)
(* Timers and time.                                                        *)
(***************************************************************************)
\* the callback of a timer that is due
\* variant: a due timer sweeps every entry of the registry
TimerFireSweeps(tm) ==
  /\ tm.left = 0
  /\ activeResearch' = [i \in {} |-> activeResearch[i]]
  /\ timers' = timers \ {tm}
  /\ Turn
  /\ UNCHANGED <<apiKey, prompt, closed, services, att, pending, sse, dbQueries, dbSteps, handled>>

TimerFire(tm) ==
  /\ tm.left = 0
  /\ activeResearch' = [i \in DOMAIN activeResearch \ {tm.queryId} |-> activeResearch[i]]
  /\ timers' = timers \ {tm}
  /\ Turn
  /\ UNCHANGED <<apiKey, prompt, closed, services, att, pending, sse, dbQueries, dbSteps, handled>>

\* time passes by d, or up to the next timer that falls due if that is sooner
Tick(d) ==
  LET step == IF \E tm \in timers : tm.left < d
              THEN (CHOOSE l \in {tm.left : tm \in timers} :
                      \A tm \in timers : l <= tm.left)
              ELSE d
  IN /\ step > 0
     /\ timers' = {[tm EXCEPT !.left = @ - step] : tm \in timers}
     /\ handled' = {[h EXCEPT !.age = Min(@ + step, Ttl(h.kind) + 1)] : h \in handled}
     /\ Turn
     /\ UNCHANGED <<apiKey, prompt, closed, activeResearch, services, att, pending, sse, dbQueries, dbSteps>>

TickSteps == {ErrorTtl, CompletedTtl}

(***************************************************************************)
(* The environment: what the completion service answers.                   *)
(***************************************************************************)
ArrayResponses(n) == {QuestionResponse("array", k, "none", 0, 0) : k \in 0..n}

OtherResponses(n) ==
  { QuestionResponse("invalid", 0, "array", n, 0),
    QuestionResponse("invalid", 0, "invalid", 0, n),
    QuestionResponse("value", 0, "none", 0, n),
    QuestionResponse("value", 0, "array", n, 0),
    QuestionResponse("invalid", 0, "none", 0, 0) }

HeaderTitles ==
  << "Introduction", "Background", "Methods", "Results", "Discussion",
     "Limitations", "Outlook", "Appendix" >>

\* n '## ' header lines, n <= 8
Headers(n) == [k \in 1..n |-> Line("h2", HeaderTitles[k])]

\* lines of every kind: text and a '### ' line before the first '## ' line,
\* descriptions of several lines, titles the filter removes
MixedOutline ==
  << Line("text", "Report outline"), Line("h3", "Orphan"),
     Line("h2", "Introduction"), Line("text", "opening"), Line("blank", ""),
     Line("h3", "Scope"), Line("hash", "#### aside"), Line("text", "closing"),
     Line("h2", "EXECUTIVE SUMMARY"), Line("text", "brief"),
     Line("h2", "Results"),
     Line("h2", "Conclusions and Outlook"), Line("h3", "Next steps") >>

Outlines(n) ==
  { <<Line("text", "no headers here")>>,
    <<Line("h2", "Conclusion"), Line("text", "wrap-up")>>,
    MixedOutline }
  \cup {Headers(k) : k \in 1..n}

(***************************************************************************)
(* Prompt building.  A bulk text is named by the stage output it comes     *)
(* from; a forwarded text is the first `length` characters of that output, *)
(* followed by '...' when `ellipsis`.  The query and the section title are *)
(* short user texts and are left out of the parts.                         *)
(***************************************************************************)
ResearchDataLimit == 2000
PreviousContentLimit == 1500
QAContextLimit == 1500
ReportContentLimit == 3000

WholeText(source, length) == [source |-> source, length |-> length, ellipsis |-> FALSE]

\* text.length
TextLength(text) == text.length + (IF text.ellipsis THEN 3 ELSE 0)

\* text.substring(0, maxLength) + '...' unless the text fits
truncateText(text, maxLength) ==
  IF TextLength(text) <= maxLength THEN text
  ELSE [source |-> text.source, length |-> Min(text.length, maxLength), ellipsis |-> TRUE]

Part(name, text) == [name |-> name, text |-> text]

\* the prompt of one helper: the bulk texts it was given and what it put
\* in place of each placeholder
BuildPrompt(consumer, inputs, parts) ==
  [consumer |-> consumer, inputs |-> inputs, parts |-> parts]

GatherResearchData(qaContext) ==
  /\ prompt' = BuildPrompt("gatherResearchData",
                           {Part("qa_context", qaContext)},
                           {Part("qa_context", qaContext)})
  /\ UNCHANGED <<apiKey, activeResearch, services, att, pending, sse,
                 dbQueries, dbSteps, timers, handled, response, closed>>

GenerateReportTitle(researchData) ==
  /\ prompt' = BuildPrompt("generateReportTitle",
                           {Part("research_data", researchData)},
                           {Part("research_data", truncateText(researchData, ResearchDataLimit))})
  /\ UNCHANGED <<apiKey, activeResearch, services, att, pending, sse,
                 dbQueries, dbSteps, timers, handled, response, closed>>

\* qaContext is the concatenation of the Q:/A: pairs built at l.321-324
CreateResearchOutline(qaContext, researchData) ==
  /\ prompt' = BuildPrompt("createResearchOutline",
                           {Part("qa_context", qaContext), Part("research_data", researchData)},
                           {Part("qa_context", qaContext),
                            Part("research_data", truncateText(researchData, ResearchDataLimit))})
  /\ UNCHANGED <<apiKey, activeResearch, services, att, pending, sse,
                 dbQueries, dbSteps, timers, handled, response, closed>>

GenerateSectionContent(previousContent, researchData, qaContext) ==
  /\ prompt' = BuildPrompt("generateSectionContent",
                           {Part("previous_content", previousContent),
                            Part("research_data", researchData),
                            Part("qa_context", qaContext)},
                           {Part("previous_content", truncateText(previousContent, PreviousContentLimit)),
                            Part("research_data", truncateText(researchData, ResearchDataLimit)),
                            Part("qa_context", truncateText(qaContext, QAContextLimit))})
  /\ UNCHANGED <<apiKey, activeResearch, services, att, pending, sse,
                 dbQueries, dbSteps, timers, handled, response, closed>>

GenerateExecutiveSummary(reportContent) ==
  /\ prompt' = BuildPrompt("generateExecutiveSummary",
                           {Part("report_content", reportContent)},
                           {Part("report_content", truncateText(reportContent, ReportContentLimit))})
  /\ UNCHANGED <<apiKey, activeResearch, services, att, pending, sse,
                 dbQueries, dbSteps, timers, handled, response, closed>>

GenerateConclusion(reportContent) ==
  /\ prompt' = BuildPrompt("generateConclusion",
                           {Part("report_content", reportContent)},
                           {Part("report_content", truncateText(reportContent, ReportContentLimit))})
  /\ UNCHANGED <<apiKey, activeResearch, services, att, pending, sse,
                 dbQueries, dbSteps, timers, handled, response, closed>>

Limits == {ResearchDataLimit, PreviousContentLimit, QAContextLimit, ReportContentLimit}

\* lengths at, just below and just above every limit, and the empty text
TextLengths == {0} \cup {limit + d : limit \in Limits, d \in {-1, 0, 1}}

Texts(source) == {WholeText(source, length) : length \in TextLengths}

(***************************************************************************)
(* Specifications.                                                         *)
(***************************************************************************)
\* maxSessions: the accepted startResearch requests the exploration stops at
System(maxSessions, maxAttach, inputs, responses, outlines, failures, inOrder, ticks) ==
  \/ \E in \in inputs : /\ StartResearch(in[1], in[2])
                         /\ Cardinality(DOMAIN dbQueries') <= maxSessions
  \/ \E queryId \in 1..(maxSessions + 1) : StreamResearch(queryId, maxAttach)
  \/ \E queryId \in 1..(maxSessions + 1) : GetResearchStatus(queryId)
  \/ \E e \in 1..Len(att) : ProcessStart(e)
  \/ \E e \in 1..Len(att), r \in responses : QuestionsReturn(e, r)
  \/ \E e \in 1..Len(att) : AnswerReturn(e)
  \/ \E e \in 1..Len(att) : ResearchDataReturn(e)
  \/ \E e \in 1..Len(att) : TitleReturn(e)
  \/ \E e \in 1..Len(att), outline \in outlines : OutlineReturn(e, outline)
  \/ \E e \in 1..Len(att) : SectionReturn(e)
  \/ \E e \in 1..Len(att) : SummaryReturn(e)
  \/ \E e \in 1..Len(att) : ConclusionReturn(e)
  \/ \E e \in 1..Len(att), message \in failures : CompletionFails(e, message)
  \/ \E t \in pending : HandlerStore(t, inOrder)
  \/ \E t \in pending : HandlerFinish(t, inOrder)
  \/ \E tm \in timers : TimerFire(tm)
  \/ \E d \in ticks : Tick(d)

\* the whole server: sessions, repeated attaches, small completion responses
Next == System(MaxSessions, MaxAttach, Requests, {QuestionResponse("array", MaxArrayLen, "none", 0, 0)},
               {Headers(MaxHeaders)}, {"No response received from Groq API"},
               TRUE, {CompletedTtl})

Spec == Init /\ [][Next]_vars

\* one observer per session, every shape of completion response
MaxPipelineArrayLen == 6
MaxPipelineHeaders  == 4

PipelineNext == System(MaxSessions, 1, Requests,
                       ArrayResponses(MaxPipelineArrayLen) \cup OtherResponses(2),
                       Outlines(MaxPipelineHeaders), FailureMessages, FALSE, TickSteps)

PipelineSpec == Init /\ [][PipelineNext]_vars

\* one observer that may disconnect at any moment; every awaited completion
\* call and every awaited storage call is eventually settled
LiveResponse == QuestionResponse("array", MaxArrayLen, "none", 0, 0)

LiveFailure == "No response received from Groq API"

LiveNext ==
  \/ System(MaxSessions, 1, Requests, {LiveResponse}, {Headers(MaxHeaders)}, {LiveFailure},
            TRUE, {CompletedTtl})
  \/ \E k \in 1..Len(att) : Disconnect(k)

\* the awaited call of execution e is settled
CompletionSettles(e) ==
  \/ ProcessStart(e)
  \/ QuestionsReturn(e, LiveResponse)
  \/ AnswerReturn(e)
  \/ ResearchDataReturn(e)
  \/ TitleReturn(e)
  \/ OutlineReturn(e, Headers(MaxHeaders))
  \/ SectionReturn(e)
  \/ SummaryReturn(e)
  \/ ConclusionReturn(e)
  \/ CompletionFails(e, LiveFailure)

StorageSettles == \E t \in pending : HandlerStore(t, TRUE) \/ HandlerFinish(t, TRUE)

LiveSpec ==
  /\ Init
  /\ [][LiveNext]_vars
  /\ WF_vars(\E e \in 1..Len(att) : CompletionSettles(e))
  /\ WF_vars(StorageSettles)

\* responses the parsers have to recover from: malformed JSON and an empty
\* array from the question call, no header and only filtered headers from
\* the outline call; every awaited call is eventually settled
ParseResponses ==
  { QuestionResponse("invalid", 0, "none", 0, 0),
    QuestionResponse("array", 0, "none", 0, 0) }

ParseOutlines ==
  { <<Line("text", "no headers here")>>,
    <<Line("h2", "Conclusion"), Line("text", "wrap-up")>> }

ParseNext == System(MaxSessions, 1, Requests, ParseResponses, ParseOutlines,
                    {LiveFailure}, TRUE, {CompletedTtl})

ParseSettles(e) ==
  \/ ProcessStart(e)
  \/ \E r \in ParseResponses : QuestionsReturn(e, r)
  \/ AnswerReturn(e)
  \/ ResearchDataReturn(e)
  \/ TitleReturn(e)
  \/ \E outline \in ParseOutlines : OutlineReturn(e, outline)
  \/ SectionReturn(e)
  \/ SummaryReturn(e)
  \/ ConclusionReturn(e)
  \/ CompletionFails(e, LiveFailure)

ParseSpec ==
  /\ Init
  /\ [][ParseNext]_vars
  /\ WF_vars(\E e \in 1..Len(att) : ParseSettles(e))
  /\ WF_vars(StorageSettles)

\* several sessions, one observer in all
MaxRegistrySessions == 2

RegistryNext == System(MaxRegistrySessions, 1, Requests, {LiveResponse},
                       {Headers(MaxHeaders)}, {LiveFailure}, TRUE, {CompletedTtl})

RegistrySpec == Init /\ [][RegistryNext]_vars

\* the prompt helpers applied to texts of every length around the limits
PromptNext ==
  \/ \E qaContext \in Texts("qa_context") : GatherResearchData(qaContext)
  \/ \E researchData \in Texts("research_data") : GenerateReportTitle(researchData)
  \/ \E qaContext \in Texts("qa_context"), researchData \in Texts("research_data") :
       CreateResearchOutline(qaContext, researchData)
  \/ \E previousContent \in Texts("previous_content"), researchData \in Texts("research_data"),
        qaContext \in Texts("qa_context") :
       GenerateSectionContent(previousContent, researchData, qaContext)
  \/ \E reportContent \in Texts("report_content") : GenerateExecutiveSummary(reportContent)
  \/ \E reportContent \in Texts("report_content") : GenerateConclusion(reportContent)

PromptSpec == Init /\ [][PromptNext]_vars

\* several sessions with an observer each, or several observers of one session
IsolationRequests == {<<"q", "llama">>}

IsolationNext == System(MaxRegistrySessions, MaxAttach, IsolationRequests, {LiveResponse},
                        {Headers(MaxHeaders)}, {LiveFailure}, TRUE, {CompletedTtl})

IsolationSpec == Init /\ [][IsolationNext]_vars

\* one session, its observer and the report retrieval
ReportNext(inOrder) ==
  \/ System(MaxSessions, 1, Requests, {LiveResponse}, {Headers(MaxHeaders)}, {LiveFailure},
            inOrder, {CompletedTtl})
  \/ \E queryId \in 1..(MaxSessions + 1) : GetResearchReport(queryId, inOrder)

\* storage calls resolve in any order
ReportSpec == Init /\ [][ReportNext(FALSE)]_vars

\* storage calls of one request resolve in the order they were made
OrderedReportSpec == Init /\ [][ReportNext(TRUE)]_vars

(***************************************************************************)
(* Properties.                                                             *)
(***************************************************************************)
Executions == 1..Len(att)

IsProgress(ev) == ev.kind = "progress"

\* the progress events of execution e, in emission order
ProgressValues(e) == SelectSeq(att[e].emitted, IsProgress)

Count(e, kind) ==
  Cardinality({i \in 1..Len(att[e].emitted) : att[e].emitted[i].kind = kind})

\* the executions of executeResearch started for a session
Started(queryId) == {e \in Executions : att[e].queryId = queryId /\ att[e].pc # "starting"}

\* C1: for any session identifier and any number of streamResearch calls on
\* it, at most one pipeline execution is ever started: a second attach does
\* not start executeResearch again.
OnePipelinePerSession ==
  \A queryId \in DOMAIN dbQueries : Cardinality(Started(queryId)) <= 1

\* C2: if a completion call of the answer-question stage fails, that
\* execution never emits a title, outline, section or report event and emits
\* exactly one error event, which carries the failure's message.
AnswerFailurePropagates ==
  \A e \in Executions :
    att[e].pc = "failed" /\ att[e].failedAt.stage = "answers" =>
      /\ \A kind \in {"title", "outline", "section", "report"} : Count(e, kind) = 0
      /\ Count(e, "error") = 1
      /\ \A i \in 1..Len(att[e].emitted) :
           att[e].emitted[i].kind = "error" =>
             att[e].emitted[i].message = att[e].failedAt.message

\* the second of several answer calls has failed
AnswerFailureSeen ==
  \E e \in Executions :
    /\ att[e].pc = "failed"
    /\ att[e].failedAt.stage = "answers"
    /\ Len(att[e].answers) >= 1
    /\ Count(e, "questions") = 1

\* C3: in an execution that reaches the complete event, the progress values
\* of its progress events, in emission order, never decrease and end at
\* exactly 100.
ProgressMonotone ==
  \A e \in Executions :
    att[e].pc = "done" =>
      LET p == ProgressValues(e)
      IN /\ \A i \in 1..(Len(p) - 1) : FxLeq(p[i].progress, p[i + 1].progress)
         /\ p[Len(p)].progress = FxFromInt(100)

\* C4: terminal statuses are sticky; a session whose pipeline emitted an
\* error event has status error and carries the error's message for as long
\* as it is in the registry.
ErrorStatusSticky ==
  \A e \in Executions :
    att[e].pc = "failed" /\ att[e].queryId \in DOMAIN activeResearch =>
      /\ activeResearch[att[e].queryId].status = "error"
      /\ activeResearch[att[e].queryId].error = att[e].failedAt.message

StageRank(kind) ==
  CASE kind = "questions" -> 1
    [] kind = "qa"        -> 2
    [] kind = "title"     -> 3
    [] kind = "outline"   -> 4
    [] kind = "section"   -> 5
    [] kind = "report"    -> 6
    [] kind = "complete"  -> 7
    [] OTHER              -> 0

IsStageEvent(ev) == StageRank(ev.kind) > 0

\* C5: the events of an execution follow the stage order: questions, then
\* every qa, then title, then outline, then every section, then report, then
\* complete.
EventsInStageOrder ==
  \A e \in Executions :
    LET s == SelectSeq(att[e].emitted, IsStageEvent)
    IN \A i, j \in 1..Len(s) :
         i < j =>
           \/ StageRank(s[i].kind) < StageRank(s[j].kind)
           \/ s[i].kind = s[j].kind /\ s[i].kind \in {"qa", "section"}

\* a finished execution with several qa and several section events
FullRunSeen ==
  \E e \in Executions :
    att[e].pc = "done" /\ Count(e, "qa") >= 2 /\ Count(e, "section") >= 2

\* C11: an observer that attaches to a session whose pipeline is already
\* running receives every event this pipeline emits after the attachment:
\* whenever a pipeline of the session emits an event, the handler of every
\* request then attached to the session is invoked for it.
LateObserverReceives ==
  [][\A e \in Executions : \A k \in Executions :
       att[k].queryId = att[e].queryId =>
         \A n \in (Len(att[e].emitted) + 1)..Len(att'[e].emitted) :
           [exec |-> e, n |-> n, obs |-> k, phase |-> 1] \in pending']_vars

\* execution e has emitted its terminal event
Terminated(e) == Count(e, "complete") + Count(e, "error") >= 1

\* C12: a started pipeline runs to a terminal event whether or not its
\* observer is still connected: if every completion call eventually returns
\* or fails, the pipeline eventually emits complete or error.
PipelineTerminates == (Len(att) >= 1) ~> (Len(att) >= 1 /\ Terminated(1))

\* the pipeline completed after its observer had disconnected in mid-run
CompletedUnobserved ==
  /\ Len(att) >= 1
  /\ 1 \in closed
  /\ att[1].pc = "done"
  /\ \E n \in 1..Len(att[1].emitted) : <<1, n>> \notin sse[1]
  /\ \E n \in 1..Len(att[1].emitted) : <<1, n>> \in sse[1]
  /\ pending = {}

\* generateFollowUpQuestions of execution e has returned
QuestionsYielded(e) == att[e].calls >= 2

Survivors(r) ==
  IF r.whole = "array" THEN r.len
  ELSE IF r.whole = "invalid" /\ r.sub = "array" THEN r.sublen
  ELSE r.lines

\* C14: the question stage never yields an empty list: when JSON parsing,
\* bracket-substring parsing and numbered-line extraction leave no question,
\* it returns the 5 template questions, each containing the query text.
QuestionsNeverEmpty ==
  \A e \in Executions :
    QuestionsYielded(e) =>
      /\ Len(att[e].questions) >= 1
      /\ Survivors(att[e].questionText) = 0 =>
           /\ Len(att[e].questions) = 5
           /\ \A i \in 1..5 :
                /\ att[e].questions[i].src = "template"
                /\ att[e].questions[i].query = dbQueries[att[e].queryId].query

\* the outline stage of execution e has returned
OutlineParsed(e) == Count(e, "outline") = 1

\* the outline text execution e received
OutlineOf(e) ==
  LET i == CHOOSE i \in 1..Len(att[e].emitted) : att[e].emitted[i].kind = "outline"
  IN att[e].emitted[i].outline

\* C15: parseOutline never returns an empty list, also when the filter
\* removes every '## ' section: the section loop runs at least once.
SectionsNeverEmpty ==
  \A e \in Executions : OutlineParsed(e) => Len(att[e].sections) >= 1

IsBody(l) == l.kind \in {"h3", "text"}

\* the section of the '## ' line at position p: its title, and the texts of
\* the '### ' and text lines between it and the next '## ' line
SectionAt(outline, p) ==
  LET later == {q \in (p + 1)..Len(outline) : outline[q].kind = "h2"}
      last  == IF later = {} THEN Len(outline)
               ELSE (CHOOSE q \in later : \A r \in later : q <= r) - 1
      body  == SelectSeq(SubSeq(outline, p + 1, last), IsBody)
  IN Section(outline[p].text, [j \in 1..Len(body) |-> body[j].text])

\* one section per '## ' line, in input order
HeaderSections(outline) ==
  LET heads == {p \in 1..Len(outline) : outline[p].kind = "h2"}
  IN [j \in 1..Cardinality(heads) |->
        SectionAt(outline, CHOOSE p \in heads : Cardinality({q \in heads : q <= p}) = j)]

FilteredTitles ==
  {"Executive Summary", "EXECUTIVE SUMMARY", "Conclusion", "Conclusions and Outlook"}

NotFiltered(s) == s.title \notin FilteredTitles

\* C17: no section parseOutline returns has a title that contains
\* 'executive summary' or 'conclusion' in any case, and the other sections
\* stay, in their order.
FilteredSectionsExcluded ==
  \A e \in Executions :
    OutlineParsed(e) =>
      LET all == HeaderSections(OutlineOf(e))
      IN att[e].sections =
           SelectSeq(IF Len(all) = 0 THEN DefaultSections ELSE all, NotFiltered)

\* sections were removed by the filter and others stayed
SomeSectionsFiltered ==
  \E e \in Executions :
    /\ OutlineParsed(e)
    /\ Len(att[e].sections) >= 2
    /\ Len(HeaderSections(OutlineOf(e))) > Len(att[e].sections)

\* k * x in double arithmetic, for small k
FxTimes(k, x) ==
  LET d == k * x[4]
      c == k * x[3] + (d \div FxBase)
      b == k * x[2] + (c \div FxBase)
      a == k * x[1] + (b \div FxBase)
  IN FxRound(<<a, b % FxBase, c % FxBase, d % FxBase>>, FALSE)

IsSectionDone(ev) == ev.kind = "progress" /\ ev.step = "sections" /\ ev.isCompleted

\* C18: with n >= 1 sections, the progress value emitted after the k-th
\* section is 55 + k * (35 / n); it never exceeds 90 and is exactly 90 after
\* the n-th section.
SectionProgressExact ==
  \A e \in Executions :
    LET done == SelectSeq(att[e].emitted, IsSectionDone)
        n    == Len(att[e].sections)
    IN \A k \in 1..Len(done) :
         /\ done[k].progress = FxAdd(FxFromInt(55), FxTimes(k, FxDiv(35, n)))
         /\ FxLeq(done[k].progress, FxFromInt(90))
         /\ k = n => done[k].progress = FxFromInt(90)

\* the streamResearch requests accepted for a session
Attached(queryId) == {k \in Executions : att[k].queryId = queryId}

\* C6: startResearch registers the session with status initializing and does
\* not start the pipeline: until the first attach on the session, no
\* completion call is issued and no event is emitted, handled or recorded
\* for it.
CreateDoesNotStart ==
  \A queryId \in DOMAIN activeResearch :
    Attached(queryId) = {} =>
      /\ activeResearch[queryId].status = "initializing"
      /\ activeResearch[queryId].questions = <<>>
      /\ activeResearch[queryId].answers = <<>>
      /\ dbQueries[queryId].status = "initializing"
      /\ \A s \in dbSteps : s.queryId = queryId => s.step = "init"
      /\ \A t \in pending : att[t.obs].queryId # queryId
      /\ \A tm \in timers : tm.queryId # queryId

\* startResearch has just answered 201 and nothing is attached
CreatedNotAttached ==
  /\ response.op = "startResearch"
  /\ response.code = 201
  /\ \E queryId \in DOMAIN activeResearch : Attached(queryId) = {}

SessionIds == 1..(MaxSessions + 1)

NothingStarted == UNCHANGED <<activeResearch, services, att, pending, sse, timers>>

\* C7 as stated: streamResearch on an identifier that is not in the registry
\* fails with NotFound, starts no pipeline, registers no observer and leaves
\* the registry unchanged.
AttachUnknownNotFound ==
  [][\A queryId \in SessionIds :
       queryId \notin DOMAIN activeResearch /\ StreamResearch(queryId, MaxAttach) =>
         response'.code = 404 /\ NothingStarted]_vars

\* C7 amended: streamResearch on an identifier that is not in the registry
\* fails, with NotFound when the API key is configured and with a server
\* error when it is not; it starts no pipeline, registers no observer and
\* leaves the registry unchanged.
AttachUnknownFails ==
  [][\A queryId \in SessionIds :
       queryId \notin DOMAIN activeResearch /\ StreamResearch(queryId, MaxAttach) =>
         /\ response'.op = "streamResearch"
         /\ response'.code = IF apiKey THEN 404 ELSE 500
         /\ NothingStarted]_vars

\* NotFound was answered after the only session had been evicted
NotFoundAfterEviction ==
  /\ response.op = "streamResearch"
  /\ response.code = 404
  /\ DOMAIN dbQueries # {}
  /\ DOMAIN activeResearch = {}

\* C8: a session whose complete event has been handled is still in the
\* registry immediately afterwards and is absent once 3,600,000 ms have
\* elapsed; a session whose error event has been handled is absent once
\* 300,000 ms have elapsed.
EvictionAfterDelay ==
  \A h \in handled :
    /\ h.kind = "complete" /\ h.age = 0 => h.queryId \in DOMAIN activeResearch
    /\ h.age > Ttl(h.kind) => h.queryId \notin DOMAIN activeResearch

\* a submission the contract rejects; a body without a model type is one
\* with the default model type
InvalidSubmission(in) ==
  \/ in[1] \in {Missing, ""}
  \/ in[2] # Missing /\ in[2] \notin {"combined", "compound", "llama"}

NothingCreated == UNCHANGED <<activeResearch, services, att, dbQueries, dbSteps>>

\* C9 as stated: a submission whose query is missing or empty, or whose model
\* type is not combined, compound or llama, is rejected with a validation
\* error: no registry entry is created, nothing is persisted and no session
\* identifier is returned.
InvalidSubmissionRejected ==
  [][\A in \in Requests :
       InvalidSubmission(in) /\ StartResearch(in[1], in[2]) =>
         response'.code = 400 /\ NothingCreated]_vars

\* C9 amended: such a submission is rejected, with a validation error when
\* the API key is configured and with a server error when it is not: no
\* registry entry is created, nothing is persisted and no session identifier
\* is returned.
InvalidSubmissionFails ==
  [][\A in \in Requests :
       InvalidSubmission(in) /\ StartResearch(in[1], in[2]) =>
         /\ response'.op = "startResearch"
         /\ response'.code = IF apiKey THEN 400 ELSE 500
         /\ NothingCreated]_vars

\* a model type outside the enumeration has just been rejected
InvalidModelRejected ==
  /\ response.op = "startResearch"
  /\ response.code = 400
  /\ response.body.error = "Invalid model type. Must be one of: combined, compound, llama"

\* the events of one kind written to the response of request k
Delivered(k, kind) ==
  {p \in sse[k] : p[1] > 0 /\ att[p[1]].emitted[p[2]].kind = kind}

\* C10: after a second observer attaches to a session, the first observer is
\* never delivered a second questions, title or outline event: each of these
\* kinds reaches an observer at most once.
NoDuplicateDelivery ==
  \A k \in Executions :
    \A kind \in {"questions", "title", "outline"} : Cardinality(Delivered(k, kind)) <= 1

\* two observers on one session, each delivered the outline of its pipeline
TwoObserversServed ==
  /\ Len(att) = 2
  /\ att[1].queryId = att[2].queryId
  /\ \A k \in {1, 2} : \A kind \in {"questions", "title", "outline"} : Delivered(k, kind) # {}

\* C19: getResearchStatus answers with the in-memory snapshot when the
\* identifier is in the registry, otherwise with the durable record when
\* there is one, otherwise with NotFound; it attaches no observer, starts no
\* pipeline and changes neither the registry nor the session's state.
StatusQueryOnlyReads ==
  [][\A queryId \in SessionIds :
       GetResearchStatus(queryId) =>
         /\ response'.op = "getResearchStatus"
         /\ IF queryId \in DOMAIN activeResearch
            THEN /\ response'.code = 200
                 /\ response'.body.status = activeResearch[queryId].status
                 /\ response'.body.error = activeResearch[queryId].error
                 /\ response'.body.query = activeResearch[queryId].query
                 /\ response'.body.modelType = activeResearch[queryId].modelType
            ELSE IF queryId \in DOMAIN dbQueries
            THEN /\ response'.code = 200
                 /\ response'.body.status = dbQueries[queryId].status
                 /\ response'.body.title = dbQueries[queryId].title
                 /\ response'.body.completedAt = dbQueries[queryId].completedAt
            ELSE response'.code = 404
         /\ UNCHANGED <<activeResearch, services, att, pending, sse, dbQueries,
                        dbSteps, timers, handled, closed>>]_vars

\* the durable record of an evicted, completed session has been returned
DurableRecordReturned ==
  /\ response.op = "getResearchStatus"
  /\ response.code = 200
  /\ DOMAIN activeResearch = {}
  /\ response.body.status = "completed"
  /\ response.body.completedAt

\* C20: a session's status becomes completed only after its pipeline has
\* emitted the report event and the complete event; a pipeline that ended
\* with an error event never leaves the session with status completed.
CompletedOnlyAfterComplete ==
  \A queryId \in DOMAIN activeResearch :
    activeResearch[queryId].status = "completed" =>
      /\ \E e \in Attached(queryId) : Count(e, "report") = 1 /\ Count(e, "complete") = 1
      /\ \A e \in Attached(queryId) : Count(e, "error") = 0

\* C21: every event emitted for a session is appended, in emission order, to
\* the session's accumulated event list in the registry (the progress field):
\* after k emitted events the list holds those k events.
EventListRetained ==
  \A e \in Executions :
    att[e].queryId \in DOMAIN activeResearch =>
      Len(activeResearch[att[e].queryId].progress) >= Len(att[e].emitted)
      /\ SubSeq(activeResearch[att[e].queryId].progress,
                Len(activeResearch[att[e].queryId].progress) - Len(att[e].emitted) + 1,
                Len(activeResearch[att[e].queryId].progress)) = att[e].emitted

StageOrder ==
  << "init", "questions", "answers", "research_data", "title", "outline",
     "sections", "summary", "conclusion" >>

StageIndex(step) == CHOOSE n \in 1..Len(StageOrder) : StageOrder[n] = step

\* the completion progress event of a stage is among the first n events of e
CompletionEmitted(e, step, n) ==
  \E i \in 1..n : /\ IsProgress(att[e].emitted[i])
                   /\ att[e].emitted[i].isCompleted
                   /\ att[e].emitted[i].step = step

\* C23: stages run strictly sequentially: no stage's start progress event
\* (isCompleted = false) is emitted, and none of its completion calls is
\* issued, before the completion progress event (isCompleted = true) of the
\* previous stage has been emitted.
StagesSequential ==
  \A e \in Executions :
    /\ \A j \in 1..Len(att[e].emitted) :
         LET ev == att[e].emitted[j]
         IN IsProgress(ev) /\ ~ev.isCompleted /\ StageIndex(ev.step) > 1 =>
              CompletionEmitted(e, StageOrder[StageIndex(ev.step) - 1], j - 1)
    /\ att[e].pc \in CallStates =>
         CompletionEmitted(e, StageOrder[StageIndex(att[e].pc) - 1], Len(att[e].emitted))

\* the progress events of execution e for a stage, by isCompleted
StageEvents(e, step, isCompleted) ==
  Cardinality({i \in 1..Len(att[e].emitted) :
                 /\ IsProgress(att[e].emitted[i])
                 /\ att[e].emitted[i].step = step
                 /\ att[e].emitted[i].isCompleted = isCompleted})

\* C24: in a completed execution every named stage (init, questions,
\* answers, research_data, title, outline, sections, summary, conclusion)
\* emits exactly one progress event at its start (isCompleted = false) and
\* exactly one at its completion (isCompleted = true).
StageEventsPaired ==
  \A e \in Executions :
    att[e].pc = "done" =>
      \A n \in 1..Len(StageOrder) :
        /\ StageEvents(e, StageOrder[n], FALSE) = 1
        /\ StageEvents(e, StageOrder[n], TRUE) = 1

\* the stages that are one completion call, or one run of calls, between two
\* progress events
PairedStages ==
  {"questions", "answers", "research_data", "title", "outline", "summary", "conclusion"}

\* C24, amended: in a completed execution each of questions, answers,
\* research_data, title, outline, summary and conclusion emits exactly one
\* start and one completion progress event; init emits its completion event
\* only; sections emits one start event for the stage and one per section,
\* and one completion event per section.
StageEventCounts ==
  \A e \in Executions :
    att[e].pc = "done" =>
      /\ \A step \in PairedStages :
           StageEvents(e, step, FALSE) = 1 /\ StageEvents(e, step, TRUE) = 1
      /\ StageEvents(e, "init", FALSE) = 0
      /\ StageEvents(e, "init", TRUE) = 1
      /\ StageEvents(e, "sections", FALSE) = Len(att[e].sections) + 1
      /\ StageEvents(e, "sections", TRUE) = Len(att[e].sections)

\* an execution has completed a report of several sections
SeveralSectionsCompleted ==
  \E e \in Executions :
    att[e].pc = "done" /\ Len(att[e].sections) >= 2 /\ StageEvents(e, "sections", TRUE) >= 2

\* the piece of work the outstanding completion call of execution record a
\* serves: the stage, and within answers and sections the question or section
CallItem(a) ==
  IF a.pc \notin CallStates THEN (IF a.pc = "starting" THEN 0 ELSE 1000)
  ELSE 100 * StageIndex(a.pc)
       + (IF a.pc = "answers" THEN Len(a.answers) + 1
          ELSE IF a.pc = "sections" THEN a.i ELSE 0)

\* C25: there is no retry: within an execution every completion call is
\* issued at most once, and after the first completion call fails no further
\* completion call is issued and the only event emitted afterwards is the
\* error event.
NoRetry ==
  [][\A e \in Executions :
       /\ att'[e].calls \in {att[e].calls, att[e].calls + 1}
       /\ att'[e].calls = att[e].calls + 1 =>
            /\ CallItem(att'[e]) > CallItem(att[e])
            /\ att'[e].pc \in CallStates
       /\ att[e].pc # "failed" /\ att'[e].pc = "failed" =>
            /\ att'[e].calls = att[e].calls
            /\ att'[e].emitted = Append(att[e].emitted, ErrorEvent(att'[e].failedAt.message))
       /\ att[e].pc = "failed" => att'[e] = att[e]]_vars

\* the call for the second section has failed and handlers have run since
SectionFailureHandled ==
  \E e \in Executions :
    /\ att[e].pc = "failed"
    /\ att[e].failedAt.stage = "sections"
    /\ att[e].i = 2
    /\ \E h \in handled : h.exec = e /\ h.kind = "error"

IsSection(ev) == ev.kind = "section"

\* the section events of execution e, in emission order
SectionEvents(e) == SelectSeq(att[e].emitted, IsSection)

\* the number of the completion call made for the j-th section: after the
\* question call, one call per question, and the research data, title and
\* outline calls
SectionCall(e, j) == Len(att[e].questions) + 4 + j

\* the first k section events of e carry the first k parsed sections
FirstSectionsEmitted(e, k) ==
  /\ Len(SectionEvents(e)) = k
  /\ \A j \in 1..k :
       /\ SectionEvents(e)[j].title = att[e].sections[j].title
       /\ SectionEvents(e)[j].content = Text(SectionCall(e, j))

\* C26: if the completion call for the (k+1)-th section fails, exactly k
\* section events have been emitted before the error event, carrying the
\* (title, content) pairs of the first k parsed sections in outline order;
\* each section event is emitted before the call of the next section is
\* issued.
SectionsBeforeFailure ==
  \A e \in Executions :
    /\ att[e].pc = "sections" => FirstSectionsEmitted(e, att[e].i - 1)
    /\ att[e].pc = "failed" /\ att[e].failedAt.stage = "sections" =>
         /\ FirstSectionsEmitted(e, att[e].i - 1)
         /\ att[e].emitted[Len(att[e].emitted)].kind = "error"
         /\ Count(e, "error") = 1

\* the call for the third section has failed
ThirdSectionFailed ==
  \E e \in Executions :
    att[e].pc = "failed" /\ att[e].failedAt.stage = "sections" /\ att[e].i = 3

\* the position of the report event among the events of execution e
ReportAt(e) == CHOOSE i \in 1..Len(att[e].emitted) : att[e].emitted[i].kind = "report"

\* the (title, content) pairs of the section events of e, in emission order
SectionPairs(e) ==
  [k \in 1..Len(SectionEvents(e)) |->
     [title |-> SectionEvents(e)[k].title, content |-> SectionEvents(e)[k].content]]

\* C27: a completed execution emits exactly one report event; its sections
\* list equals, element by element and in order, the (title, content) pairs
\* of the section events emitted before it, which follow the order of the
\* parsed outline.
ReportMatchesSections ==
  \A e \in Executions :
    att[e].pc = "done" =>
      /\ Count(e, "report") = 1
      /\ \A i \in 1..Len(att[e].emitted) :
           att[e].emitted[i].kind = "section" => i < ReportAt(e)
      /\ att[e].emitted[ReportAt(e)].sections = SectionPairs(e)
      /\ Len(SectionPairs(e)) = Len(ParseOutline(OutlineOf(e)))
      /\ \A k \in 1..Len(SectionPairs(e)) :
           SectionPairs(e)[k].title = ParseOutline(OutlineOf(e))[k].title

\* a report of three sections has been emitted
ThreeSectionReport ==
  \E e \in Executions :
    /\ att[e].pc = "done"
    /\ Count(e, "report") = 1
    /\ Len(att[e].emitted[ReportAt(e)].sections) = 3

IsQA(ev) == ev.kind = "qa"

\* the qa events of execution e, in emission order
QAEvents(e) == SelectSeq(att[e].emitted, IsQA)

\* the answer stage of execution e has emitted its completion event
AnswersCompleted(e) == StageEvents(e, "answers", TRUE) = 1

\* C28: questions are answered one at a time in question order: the call
\* for question k+1 is issued only after the call for question k has
\* returned; one qa event is emitted per question, in question order, the
\* k-th pairing the k-th question with the answer returned by the k-th call,
\* and the QA context concatenates the pairs in that same order.
AnswersInOrder ==
  \A e \in Executions :
    /\ Len(att[e].answers) <= Len(att[e].questions)
    /\ \A k \in 1..Len(att[e].answers) : att[e].answers[k] = Text(1 + k)
    /\ att[e].pc = "answers" =>
         /\ att[e].calls = Len(att[e].answers) + 2
         /\ Len(QAEvents(e)) = 0
    /\ IF AnswersCompleted(e)
       THEN /\ Len(QAEvents(e)) = Len(att[e].questions)
            /\ Len(att[e].qaContext) = Len(att[e].questions)
            /\ \A k \in 1..Len(att[e].questions) :
                 /\ QAEvents(e)[k] = QAEvent(att[e].questions[k], Text(1 + k))
                 /\ att[e].qaContext[k] =
                      [question |-> att[e].questions[k], answer |-> Text(1 + k)]
       ELSE Len(QAEvents(e)) = 0 /\ att[e].qaContext = <<>>

\* five questions have been answered and the title call is outstanding
FiveAnswered ==
  \E e \in Executions :
    att[e].pc = "title" /\ Len(att[e].questions) = 5 /\ Len(QAEvents(e)) = 5

\* C29: whenever parsing the whole question-generation response as JSON does
\* not produce an array (it throws, or it parses to a value that is no
\* array), the stage next parses the text from the first '[' to the last ']'
\* as a JSON array, and only if that fails too does it fall back to the
\* numbered lines.
SubstringTriedNext ==
  \A e \in Executions :
    QuestionsYielded(e) /\ att[e].questionText.whole # "array" =>
      IF att[e].questionText.sub = "array"
      THEN att[e].questions =
             Slice(Elements("substring", att[e].questionText.sublen), MaxQuestionCount)
      ELSE \A k \in 1..Len(att[e].questions) :
             att[e].questions[k].src \in {"line", "template"}

\* C30: parse-recoverable conditions never surface as errors: provided
\* every completion call succeeds, then for any text of the question and
\* outline responses (malformed JSON, empty array, no headers, only filtered
\* headers) the execution emits no error event and reaches the complete
\* event.  Every error event carries the message of a failed completion
\* call, and an execution either has a call fail or emits complete.
ParseFailuresAbsorbed ==
  /\ [](\A e \in Executions :
          \A i \in 1..Len(att[e].emitted) :
            att[e].emitted[i].kind = "error" =>
              /\ att[e].pc = "failed"
              /\ att[e].emitted[i].message \in FailureMessages)
  /\ (Len(att) >= 1) ~> (Len(att) >= 1 /\ (att[1].pc = "failed" \/ Count(1, "complete") = 1))

\* an execution has completed on template questions and an outline whose
\* every section was filtered out
CompletedOnFallbacks ==
  \E e \in Executions :
    /\ Count(e, "complete") = 1
    /\ Count(e, "error") = 0
    /\ att[e].questionText.whole = "invalid"
    /\ att[e].questions = DefaultQuestions(dbQueries[att[e].queryId].query)
    /\ OutlineOf(e) \in ParseOutlines
    /\ Len(att[e].sections) = 0
(***************************************************************************)
(* Prompt budgets.                                                         *)
(***************************************************************************)
\* the input of a prompt that a part was made from
InputOf(part) == CHOOSE in \in prompt.inputs : in.name = part.name

\* the text a consumer with the given budget would forward
Budgeted(text, budget) ==
  IF text.length <= budget THEN text
  ELSE [source |-> text.source, length |-> budget, ellipsis |-> TRUE]

\* C31: every bulk text placed in a prompt is the original truncated to a
\* character budget of the consumer: the original when it fits the budget,
\* otherwise its first budget characters followed by '...'.
PromptsTruncated ==
  \A part \in prompt.parts :
    \E budget \in Limits : part.text = Budgeted(InputOf(part).text, budget)

\* the texts that are passed through truncateText are cut to their limit
TruncatedPartsWithinLimit ==
  \A part \in prompt.parts :
    part.text.ellipsis => /\ part.text.length \in Limits
                          /\ InputOf(part).text.length > part.text.length

(***************************************************************************)
(* Sessions side by side.                                                  *)
(***************************************************************************)
\* what execution e was given: its session's query and model, the responses
\* of its completion calls and the point it has reached
InputsOf(e) ==
  [given   |-> [att[e] EXCEPT !.queryId = 0, !.svc = 0, !.emitted = <<>>],
   query   |-> dbQueries[att[e].queryId].query,
   outline |-> IF OutlineParsed(e) THEN OutlineOf(e) ELSE <<>>]

\* every handler invocation, stream entry, step record and timer made for an
\* event of execution e belongs to the session of e
OwnSessionOnly ==
  /\ \A t \in pending : att[t.obs].queryId = att[t.exec].queryId
  /\ \A k \in Executions : \A p \in sse[k] : p[1] > 0 => att[p[1]].queryId = att[k].queryId
  /\ \A r \in dbSteps : r.src[1] > 0 => r.queryId = att[r.src[1]].queryId
  /\ \A tm \in timers : tm.queryId = att[tm.exec].queryId

\* C32: the events of a session's pipeline reach only observers attached to
\* that session and are recorded only under its identifier, and what an
\* execution emits depends on its own inputs alone: two executions given the
\* same inputs have emitted the same events, whatever ran beside them.
SessionsIsolated ==
  /\ OwnSessionOnly
  /\ \A e, f \in Executions : InputsOf(e) = InputsOf(f) => att[e].emitted = att[f].emitted

\* two sessions whose pipelines are both in mid-run, each past its questions
\* stage, with events of both already written to their observers
TwoSessionsRunning ==
  \E e, f \in Executions :
    /\ att[e].queryId # att[f].queryId
    /\ att[e].pc \notin {"starting", "done", "failed"}
    /\ att[f].pc \notin {"starting", "done", "failed"}
    /\ Count(e, "questions") = 1 /\ Count(f, "questions") = 1
    /\ \E p \in sse[e] : p[1] = e
    /\ \E p \in sse[f] : p[1] = f

(***************************************************************************)
(* Order of the writes to an observer's stream.                            *)
(***************************************************************************)
\* C33: the events are written to an observer's stream in the order the
\* pipeline emitted them, whatever the latency of the storage writes the
\* handlers await: when an event has been written, every event emitted
\* before it has been written too; the report event precedes complete.
WrittenInEmissionOrder ==
  \A k \in 1..Len(sse) :
    \A p \in sse[k] :
      p[1] > 0 => \A m \in 1..(p[2] - 1) : <<p[1], m>> \in sse[k]

(***************************************************************************)
(* Report retrieval.                                                       *)
(***************************************************************************)
ReportNotFound ==
  Respond("getResearchReport", 404, Failure("Research report not found for this query"))

\* C34: whenever the durable status of a session is completed, a report
\* step record of the session has been persisted, so getResearchReport never
\* answers 'report not found' for a session whose durable status is completed.
ReportPersistedWhenCompleted ==
  /\ \A queryId \in DOMAIN dbQueries :
       dbQueries[queryId].status = "completed"
         => \E r \in GetResearchSteps(queryId) : r.step = "report"
  /\ \A queryId \in DOMAIN dbQueries :
       dbQueries[queryId].status = "completed"
         => response # ReportNotFound

\* the questions and the outline that the pipeline of a session emitted
EmittedQuestions(e) ==
  LET i == CHOOSE i \in 1..Len(att[e].emitted) : att[e].emitted[i].kind = "questions"
  IN att[e].emitted[i].questions

\* C37: for a completed session whose records are stored in emission order,
\* getResearchReport returns the questions of the questions event and the
\* outline of the outline event, not what a progress record of the same
\* stage name carries.
ReportCarriesQuestionsAndOutline ==
  (/\ response.op = "getResearchReport"
   /\ response.code = 200
   /\ response.body.status = "completed")
    => /\ response.body.questions = EmittedQuestions(1)
       /\ response.body.outline = OutlineOf(1)

(***************************************************************************)
(* Eviction and the end of the pipeline.                                   *)
(***************************************************************************)
\* the executions of a session that have not reached their terminal event
Running(queryId) ==
  {e \in Attached(queryId) : att[e].pc \notin {"done", "failed"}}

\* C35: a registry entry is never deleted while its status is in_progress:
\* the eviction removes an entry only when no pipeline execution of that
\* identifier is still running.
EvictedOnlyWhenIdle ==
  [][\A queryId \in DOMAIN activeResearch :
       queryId \notin DOMAIN activeResearch'
         => /\ activeResearch[queryId].status # "in_progress"
            /\ Running(queryId) = {}]_vars

\* the pipeline of execution e has ended and its handlers have finished
Settled(e) ==
  /\ att[e].pc \in {"done", "failed"}
  /\ \A t \in pending : t.exec # e

\* C36: once the pipeline of a session has ended, the status that
\* getResearchStatus answers from the registry entry equals the status it
\* answers from durable storage after the entry has been evicted.
StatusSameAfterEviction ==
  \A e \in Executions :
    (Settled(e) /\ att[e].queryId \in DOMAIN activeResearch)
      => MemorySnapshot(att[e].queryId).status = DurableSnapshot(att[e].queryId).status

\* the terminal events execution e has emitted
TerminalCount(e) == Count(e, "complete") + Count(e, "error")

\* C38: a pipeline execution emits exactly one terminal event, complete or
\* error and never both, and no event of any kind after it: while it runs it
\* has emitted none, and once it has ended the one terminal event is the
\* last event of its sequence.
OneTerminalEvent ==
  \A e \in Executions :
    /\ TerminalCount(e) <= 1
    /\ TerminalCount(e) = 1 <=> att[e].pc \in {"done", "failed"}
    /\ TerminalCount(e) = 1
         => att[e].emitted[Len(att[e].emitted)].kind \in {"complete", "error"}
    /\ att[e].pc = "done" => Count(e, "complete") = 1
    /\ att[e].pc = "failed" => Count(e, "error") = 1

\* nothing is appended to the sequence of an execution that has ended
NothingAfterTerminal ==
  [][\A e \in Executions : TerminalCount(e) = 1 => att'[e].emitted = att[e].emitted]_vars

\* the last completion call of a pipeline failed: error is its only
\* terminal event, emitted after the summary stage had completed
ConclusionFailed ==
  \E e \in Executions :
    /\ att[e].pc = "failed"
    /\ att[e].failedAt.stage = "conclusion"
    /\ StageEvents(e, "summary", TRUE) = 1
    /\ Count(e, "error") = 1 /\ Count(e, "complete") = 0

\* C39: eviction is scheduled only by the complete and error handlers
\* installed at attach: every timer belongs to a terminal event whose handler
\* has finished for an attached request, and a session that was created and
\* never attached has no timer, keeps status initializing and stays in the
\* registry however much time passes.
EvictionOnlyAfterAttach ==
  /\ \A tm \in timers :
       /\ tm.obs \in Attached(tm.queryId)
       /\ att[tm.exec].emitted[tm.n].kind \in {"complete", "error"}
       /\ \A t \in pending : ~(t.exec = tm.exec /\ t.n = tm.n /\ t.obs = tm.obs)
  /\ \A queryId \in DOMAIN dbQueries :
       Attached(queryId) = {}
         => /\ queryId \in DOMAIN activeResearch
            /\ activeResearch[queryId].status = "initializing"
            /\ \A tm \in timers : tm.queryId # queryId

\* a session created first and never attached is still in the registry with
\* status initializing after a later session has completed and, more than
\* an hour after its complete handler, has been evicted
UnattachedOutlivesEvicted ==
  \E first, later \in DOMAIN dbQueries :
    /\ first < later
    /\ Attached(first) = {}
    /\ first \in DOMAIN activeResearch
    /\ activeResearch[first].status = "initializing"
    /\ later \notin DOMAIN activeResearch
    /\ \E h \in handled : h.queryId = later /\ h.kind = "complete" /\ h.age > CompletedTtl

=============================================================================
